---------------------------- MODULE Spec2Model ----------------------------
(***************************************************************************)
(* Model of hash.py: a one-shot command-line tool that reads DATA and ALGO *)
(* from the process environment, hashes the UTF-8 encoding of DATA with    *)
(* hashlib and prints a JSON record, or prints "Error: <message>" and      *)
(* exits with status 1.                                                    *)
(*                                                                         *)
(* Text is a sequence of characters.  An ASCII character is the one-letter *)
(* string of itself; a character outside ASCII is named by its code point  *)
(* ("U+00E9").  Bytes are integers 0..255.  A 32-bit word is a pair        *)
(* <<high half, low half>> of 16-bit integers, so that the arithmetic of   *)
(* the digest functions stays modulo 2^32.                                 *)
(***************************************************************************)
EXTENDS Integers, Sequences, FiniteSets, TLC

(***************************************************************************)
(* Bounds of the model.                                                    *)
(***************************************************************************)
MaxDataLen == 2
MaxRuns == 2

(***************************************************************************)
(* The state of a run of the program.                                      *)
(***************************************************************************)
VARIABLES
    env,          \* the process environment: DATA and ALGO, each None or a str
    pc,           \* the statement the process is at
    data,         \* main's local `data`
    algo,         \* main's local `algo`
    hash_obj,     \* main's local `hash_obj`
    err,          \* the exception in flight, if any
    stdout,       \* the characters written to standard output
    stderr,       \* the characters written to standard error
    exit_status,  \* the exit status once the process has ended, -1 before
    reads,        \* the names of the variables read from the environment
    history       \* the runs that ended before this one

vars == << env, pc, data, algo, hash_obj, err, stdout, stderr, exit_status,
           reads, history >>

(***************************************************************************)
(* 32-bit word arithmetic used by hashlib's digests.                       *)
(***************************************************************************)
Pow2(n) ==
    << 1, 2, 4, 8, 16, 32, 64, 128, 256, 512, 1024, 2048, 4096, 8192, 16384,
       32768, 65536 >>[n + 1]

\* Bit k (0..3) of the 4-bit number a.
BitOf(a, k) == (a \div Pow2(k)) % 2

\* Bitwise AND and XOR of two 4-bit numbers, as tables.
AndNibble ==
    [a \in 0..15 |-> [b \in 0..15 |->
        BitOf(a, 0) * BitOf(b, 0) + 2 * BitOf(a, 1) * BitOf(b, 1)
        + 4 * BitOf(a, 2) * BitOf(b, 2) + 8 * BitOf(a, 3) * BitOf(b, 3)]]

XorNibble ==
    [a \in 0..15 |-> [b \in 0..15 |->
        ((BitOf(a, 0) + BitOf(b, 0)) % 2) + 2 * ((BitOf(a, 1) + BitOf(b, 1)) % 2)
        + 4 * ((BitOf(a, 2) + BitOf(b, 2)) % 2) + 8 * ((BitOf(a, 3) + BitOf(b, 3)) % 2)]]

\* A table of 4-bit results applied to the four nibbles of 16-bit numbers.
Nibbles16(tab, a, b) ==
    tab[a % 16][b % 16]
    + 16 * tab[(a \div 16) % 16][(b \div 16) % 16]
    + 256 * tab[(a \div 256) % 16][(b \div 256) % 16]
    + 4096 * tab[a \div 4096][b \div 4096]

And16(a, b) == Nibbles16(AndNibble, a, b)

Xor16(a, b) == Nibbles16(XorNibble, a, b)

And32(a, b) == << And16(a[1], b[1]), And16(a[2], b[2]) >>

Xor32(a, b) == << Xor16(a[1], b[1]), Xor16(a[2], b[2]) >>

Or32(a, b) == << a[1] + b[1] - And16(a[1], b[1]), a[2] + b[2] - And16(a[2], b[2]) >>

Not32(a) == << 65535 - a[1], 65535 - a[2] >>

Add32(a, b) ==
    LET lo == a[2] + b[2]
        hi == a[1] + b[1] + (lo \div 65536)
    IN  << hi % 65536, lo % 65536 >>

Shr32(a, n) ==
    IF n >= 16 THEN << 0, a[1] \div Pow2(n - 16) >>
    ELSE << a[1] \div Pow2(n),
            (a[2] \div Pow2(n)) + (a[1] % Pow2(n)) * Pow2(16 - n) >>

Rotr32(a, n) ==
    LET b == IF n >= 16 THEN << a[2], a[1] >> ELSE a
        m == n % 16
    IN  << (b[1] \div Pow2(m)) + (b[2] % Pow2(m)) * Pow2(16 - m),
           (b[2] \div Pow2(m)) + (b[1] % Pow2(m)) * Pow2(16 - m) >>

Rotl32(a, n) == Rotr32(a, (32 - n) % 32)

\* The bytes of a word, most significant first.
WordBytesBE(a) == << a[1] \div 256, a[1] % 256, a[2] \div 256, a[2] % 256 >>

\* The bytes of a word, least significant first.
WordBytesLE(a) == << a[2] % 256, a[2] \div 256, a[1] % 256, a[1] \div 256 >>

WordFromBE(b, i) == << b[i] * 256 + b[i + 1], b[i + 2] * 256 + b[i + 3] >>

WordFromLE(b, i) == << b[i + 3] * 256 + b[i + 2], b[i + 1] * 256 + b[i] >>

Zeros(n) == [i \in 1..n |-> 0]

\* The concatenation of the sequences ss[lo], ..., ss[hi], by halves.
RECURSIVE FlattenRange(_, _, _)
FlattenRange(ss, lo, hi) ==
    IF lo > hi THEN << >>
    ELSE IF lo = hi THEN ss[lo]
    ELSE LET mid == (lo + hi) \div 2
         IN  FlattenRange(ss, lo, mid) \o FlattenRange(ss, mid + 1, hi)

FlattenSeq(ss) == FlattenRange(ss, 1, Len(ss))

\* Merkle-Damgard padding: 0x80, zeros up to 56 mod 64, then the length in
\* bits as a 64-bit integer (lenBytes gives its 8 bytes).
PadMessage(msg, lenBytes) ==
    LET n == Len(msg)
        k == (119 - (n % 64)) % 64
    IN  msg \o << 128 >> \o Zeros(k) \o lenBytes

\* The low 32 bits of the bit length of an n-byte message, as a word.
BitLenWord(n) == << (n * 8) \div 65536, (n * 8) % 65536 >>

(***************************************************************************)
(* SHA-256 (hashlib.new('sha256')).                                        *)
(***************************************************************************)
SHA256_K ==
    << <<17034, 12184>>, <<28983, 17553>>, <<46528, 64463>>, <<59829, 56229>>,
       <<14678, 49755>>, <<23025, 4593>>, <<37439, 33444>>, <<43804, 24277>>,
       <<55303, 43672>>, <<4739, 23297>>, <<9265, 34238>>, <<21772, 32195>>,
       <<29374, 23924>>, <<32990, 45566>>, <<39900, 1703>>, <<49563, 61812>>,
       <<58523, 27073>>, <<61374, 18310>>, <<4033, 40390>>, <<9228, 41420>>,
       <<11753, 11375>>, <<19060, 33962>>, <<23728, 43484>>, <<30457, 35034>>,
       <<38974, 20818>>, <<43057, 50797>>, <<45059, 10184>>, <<48985, 32711>>,
       <<50912, 3059>>, <<54695, 37191>>, <<1738, 25425>>, <<5161, 10599>>,
       <<10167, 2693>>, <<11803, 8504>>, <<19756, 28156>>, <<21304, 3347>>,
       <<25866, 29524>>, <<30314, 2747>>, <<33218, 51502>>, <<37490, 11397>>,
       <<41663, 59553>>, <<43034, 26187>>, <<49739, 35696>>, <<51052, 20899>>,
       <<53650, 59417>>, <<54937, 1572>>, <<62478, 13701>>, <<4202, 41072>>,
       <<6564, 49430>>, <<7735, 27656>>, <<10056, 30540>>, <<13488, 48309>>,
       <<14620, 3251>>, <<20184, 43594>>, <<23452, 51791>>, <<26670, 28659>>,
       <<29839, 33518>>, <<30885, 25455>>, <<33992, 30740>>, <<36039, 520>>,
       <<37054, 65530>>, <<42064, 27883>>, <<48889, 41975>>, <<50801, 30962>> >>

SHA256_H0 ==
    << <<27145, 58983>>, <<47975, 44677>>, <<15470, 62322>>, <<42319, 62778>>,
       <<20750, 21119>>, <<39685, 26764>>, <<8067, 55723>>, <<23520, 52505>> >>

BigSigma0(x) == Xor32(Xor32(Rotr32(x, 2), Rotr32(x, 13)), Rotr32(x, 22))

BigSigma1(x) == Xor32(Xor32(Rotr32(x, 6), Rotr32(x, 11)), Rotr32(x, 25))

SmallSigma0(x) == Xor32(Xor32(Rotr32(x, 7), Rotr32(x, 18)), Shr32(x, 3))

SmallSigma1(x) == Xor32(Xor32(Rotr32(x, 17), Rotr32(x, 19)), Shr32(x, 10))

Ch(x, y, z) == Xor32(And32(x, y), And32(Not32(x), z))

Maj(x, y, z) == Xor32(Xor32(And32(x, y), And32(x, z)), And32(y, z))

\* Word t (1..64) of the message schedule of the block that starts after
\* byte off, given the words before it.
SHA256ScheduleWord(b, off, w, t) ==
    IF t <= 16 THEN WordFromBE(b, off + 4 * (t - 1) + 1)
    ELSE Add32(Add32(SmallSigma1(w[t - 2]), w[t - 7]),
               Add32(SmallSigma0(w[t - 15]), w[t - 16]))

\* The schedule w extended by its words lo..hi.  The range is split in
\* halves, and w is evaluated before each step, to keep the evaluation
\* shallow.
RECURSIVE SHA256Schedule(_, _, _, _, _)
SHA256Schedule(b, off, w, lo, hi) ==
    IF Len(w) # lo - 1 THEN w
    ELSE IF lo = hi THEN Append(w, SHA256ScheduleWord(b, off, w, lo))
    ELSE SHA256Schedule(b, off, SHA256Schedule(b, off, w, lo, (lo + hi) \div 2),
                        ((lo + hi) \div 2) + 1, hi)

SHA256Round(s, k, w) ==
    LET t1 == Add32(Add32(Add32(s[8], BigSigma1(s[5])), Add32(Ch(s[5], s[6], s[7]), k)), w)
        t2 == Add32(BigSigma0(s[1]), Maj(s[1], s[2], s[3]))
    IN  << Add32(t1, t2), s[1], s[2], s[3], Add32(s[4], t1), s[5], s[6], s[7] >>

\* Rounds lo..hi (1..64) applied to the state s, split in halves.
RECURSIVE SHA256Rounds(_, _, _, _)
SHA256Rounds(s, w, lo, hi) ==
    IF Len(s) # 8 THEN s
    ELSE IF lo = hi THEN SHA256Round(s, SHA256_K[lo], w[lo])
    ELSE SHA256Rounds(SHA256Rounds(s, w, lo, (lo + hi) \div 2), w,
                      ((lo + hi) \div 2) + 1, hi)

\* One block compressed into the chaining value h.  The guards on Len make
\* the schedule, and then the rounds, evaluated before the final sums.
SHA256Compress(h, b, off) ==
    LET w == SHA256Schedule(b, off, << >>, 1, 64)
    IN  IF Len(w) # 64 THEN h
        ELSE LET s == SHA256Rounds(h, w, 1, 64)
             IN  IF Len(s) # 8 THEN h
                 ELSE << Add32(h[1], s[1]), Add32(h[2], s[2]), Add32(h[3], s[3]),
                         Add32(h[4], s[4]), Add32(h[5], s[5]), Add32(h[6], s[6]),
                         Add32(h[7], s[7]), Add32(h[8], s[8]) >>

RECURSIVE SHA256Blocks(_, _, _)
SHA256Blocks(h, b, off) ==
    IF off >= Len(b) \/ Len(h) # 8 THEN h ELSE SHA256Blocks(SHA256Compress(h, b, off), b, off + 64)

\* The 32 bytes of the SHA-256 digest of the byte sequence msg.
SHA256Digest(msg) ==
    LET padded == PadMessage(msg, << 0, 0, 0, 0 >> \o WordBytesBE(BitLenWord(Len(msg))))
        h == SHA256Blocks(SHA256_H0, padded, 0)
    IN  IF Len(h) # 8 THEN << >>
        ELSE WordBytesBE(h[1]) \o WordBytesBE(h[2]) \o WordBytesBE(h[3])
             \o WordBytesBE(h[4]) \o WordBytesBE(h[5]) \o WordBytesBE(h[6])
             \o WordBytesBE(h[7]) \o WordBytesBE(h[8])

(***************************************************************************)
(* MD5 (hashlib.new('md5')).                                               *)
(***************************************************************************)
MD5_T ==
    << <<55146, 42104>>, <<59591, 46934>>, <<9248, 28891>>, <<49597, 52974>>,
       <<62844, 4015>>, <<18311, 50730>>, <<43056, 17939>>, <<64838, 38145>>,
       <<27008, 39128>>, <<35652, 63407>>, <<65535, 23473>>, <<35164, 55230>>,
       <<27536, 4386>>, <<64920, 29075>>, <<42617, 17294>>, <<18868, 2081>>,
       <<63006, 9570>>, <<49216, 45888>>, <<9822, 23121>>, <<59830, 51114>>,
       <<54831, 4189>>, <<580, 5203>>, <<55457, 59009>>, <<59347, 64456>>,
       <<8673, 52710>>, <<49975, 2006>>, <<62677, 3463>>, <<17754, 5357>>,
       <<43491, 59653>>, <<64751, 41976>>, <<26479, 729>>, <<36138, 19594>>,
       <<65530, 14658>>, <<34673, 63105>>, <<28061, 24866>>, <<64997, 14348>>,
       <<42174, 59972>>, <<19422, 53161>>, <<63163, 19296>>, <<48831, 48240>>,
       <<10395, 32454>>, <<60065, 10234>>, <<54511, 12421>>, <<1160, 7429>>,
       <<55764, 53305>>, <<59099, 39397>>, <<8098, 31992>>, <<50348, 22117>>,
       <<62505, 8772>>, <<17194, 65431>>, <<43924, 9127>>, <<64659, 41017>>,
       <<25947, 22979>>, <<36620, 52370>>, <<65519, 62589>>, <<34180, 24017>>,
       <<28584, 32335>>, <<65068, 59104>>, <<41729, 17172>>, <<19976, 4513>>,
       <<63315, 32386>>, <<48442, 62005>>, <<10967, 53947>>, <<60294, 54161>> >>

MD5_INIT ==
    << <<26437, 8961>>, <<61389, 43913>>, <<39098, 56574>>, <<4146, 21622>> >>

MD5_SHIFT ==
    << 7, 12, 17, 22, 7, 12, 17, 22, 7, 12, 17, 22, 7, 12, 17, 22,
       5, 9, 14, 20, 5, 9, 14, 20, 5, 9, 14, 20, 5, 9, 14, 20,
       4, 11, 16, 23, 4, 11, 16, 23, 4, 11, 16, 23, 4, 11, 16, 23,
       6, 10, 15, 21, 6, 10, 15, 21, 6, 10, 15, 21, 6, 10, 15, 21 >>

\* Round i (0..63) of MD5 on state <<a, b, c, d>> and the block's 16 words m.
MD5Round(s, m, i) ==
    LET bb == s[2]
        cc == s[3]
        dd == s[4]
        f == IF i < 16 THEN Or32(And32(bb, cc), And32(Not32(bb), dd))
             ELSE IF i < 32 THEN Or32(And32(dd, bb), And32(Not32(dd), cc))
             ELSE IF i < 48 THEN Xor32(Xor32(bb, cc), dd)
             ELSE Xor32(cc, Or32(bb, Not32(dd)))
        g == IF i < 16 THEN i
             ELSE IF i < 32 THEN (5 * i + 1) % 16
             ELSE IF i < 48 THEN (3 * i + 5) % 16
             ELSE (7 * i) % 16
        x == Add32(Add32(s[1], f), Add32(MD5_T[i + 1], m[g + 1]))
    IN  << dd, Add32(bb, Rotl32(x, MD5_SHIFT[i + 1])), bb, cc >>

\* The words lo..hi (1..16) of the block that starts after byte off,
\* appended to m.
RECURSIVE MD5Words(_, _, _, _, _)
MD5Words(b, off, m, lo, hi) ==
    IF Len(m) # lo - 1 THEN m
    ELSE IF lo = hi THEN Append(m, WordFromLE(b, off + 4 * (lo - 1) + 1))
    ELSE MD5Words(b, off, MD5Words(b, off, m, lo, (lo + hi) \div 2),
                  ((lo + hi) \div 2) + 1, hi)

\* Rounds lo..hi (0..63) applied to the state s, split in halves.
RECURSIVE MD5Rounds(_, _, _, _)
MD5Rounds(s, m, lo, hi) ==
    IF Len(s) # 4 THEN s
    ELSE IF lo = hi THEN MD5Round(s, m, lo)
    ELSE MD5Rounds(MD5Rounds(s, m, lo, (lo + hi) \div 2), m, ((lo + hi) \div 2) + 1, hi)

\* One block compressed into the chaining value h.  The guards on Len make
\* the words, and then the rounds, evaluated before the final sums.
MD5Compress(h, b, off) ==
    LET m == MD5Words(b, off, << >>, 1, 16)
    IN  IF Len(m) # 16 THEN h
        ELSE LET s == MD5Rounds(h, m, 0, 63)
             IN  IF Len(s) # 4 THEN h
                 ELSE << Add32(h[1], s[1]), Add32(h[2], s[2]), Add32(h[3], s[3]),
                         Add32(h[4], s[4]) >>

RECURSIVE MD5Blocks(_, _, _)
MD5Blocks(h, b, off) ==
    IF off >= Len(b) \/ Len(h) # 4 THEN h ELSE MD5Blocks(MD5Compress(h, b, off), b, off + 64)

\* The 16 bytes of the MD5 digest of the byte sequence msg.
MD5Digest(msg) ==
    LET padded == PadMessage(msg, WordBytesLE(BitLenWord(Len(msg))) \o << 0, 0, 0, 0 >>)
        h == MD5Blocks(MD5_INIT, padded, 0)
    IN  IF Len(h) # 4 THEN << >>
        ELSE WordBytesLE(h[1]) \o WordBytesLE(h[2]) \o WordBytesLE(h[3])
             \o WordBytesLE(h[4])

(***************************************************************************)
(* Text: characters, code points and the conversions Python applies.       *)
(***************************************************************************)
\* The printable ASCII characters, code points 32..126 in order (the grave
\* accent, which a TLA+ string cannot hold, is named U+0060).
Ascii ==
    << " ", "!", "\"", "#", "$", "%", "&", "'", "(", ")", "*", "+",
       ",", "-", ".", "/", "0", "1", "2", "3", "4", "5", "6", "7",
       "8", "9", ":", ";", "<", "=", ">", "?", "@", "A", "B", "C",
       "D", "E", "F", "G", "H", "I", "J", "K", "L", "M", "N", "O",
       "P", "Q", "R", "S", "T", "U", "V", "W", "X", "Y", "Z", "[",
       "\\", "]", "^", "_", "U+0060", "a", "b", "c", "d", "e", "f", "g",
       "h", "i", "j", "k", "l", "m", "n", "o", "p", "q", "r", "s",
       "t", "u", "v", "w", "x", "y", "z", "{", "|", "}", "~" >>

\* Characters outside ASCII that the inputs of the model use.  U+DCFF is
\* the lone surrogate os.getenv yields for the undecodable byte 0xFF
\* (surrogateescape).
NonAscii == ("U+00E9" :> 233) @@ ("U+DCFF" :> 56575)

LineFeed == "\n"

\* ord(c)
Ord(c) ==
    IF c \in DOMAIN NonAscii THEN NonAscii[c]
    ELSE IF c = LineFeed THEN 10
    ELSE 31 + (CHOOSE i \in 1..Len(Ascii) : Ascii[i] = c)

HexDigits == << "0", "1", "2", "3", "4", "5", "6", "7", "8", "9", "a", "b",
                "c", "d", "e", "f" >>

\* Variant: the digits in upper case, as format(b, '02X') gives.
HexByte_Upper(b) ==
    LET d == << "0", "1", "2", "3", "4", "5", "6", "7", "8", "9",
                "A", "B", "C", "D", "E", "F" >>
    IN  << d[(b \div 16) + 1], d[(b % 16) + 1] >>

\* Two lowercase hex digits of a byte.
HexByte(b) == << HexDigits[(b \div 16) + 1], HexDigits[(b % 16) + 1] >>

\* format(n, '04x')
Hex4(n) == HexByte(n \div 256) \o HexByte(n % 256)

\* bytes.hex(): lowercase hexadecimal, two digits per byte.
HexOf(bytes) == FlattenSeq([i \in 1..Len(bytes) |-> HexByte(bytes[i])])

\* str(n) for a natural number n.
RECURSIVE IntToText(_)
IntToText(n) ==
    IF n < 10 THEN << HexDigits[n + 1] >>
    ELSE IntToText(n \div 10) \o << HexDigits[(n % 10) + 1] >>

IsSurrogate(cp) == cp >= 55296 /\ cp <= 57343

\* Variant: one byte per code point, as a Latin-1 encoding would give.
UTF8OfCodePoint_Latin1(cp) == << cp % 256 >>

\* The UTF-8 bytes of one code point that is not a surrogate.
UTF8OfCodePoint(cp) ==
    IF cp < 128 THEN << cp >>
    ELSE IF cp < 2048 THEN << 192 + (cp \div 64), 128 + (cp % 64) >>
    ELSE IF cp < 65536
         THEN << 224 + (cp \div 4096), 128 + ((cp \div 64) % 64), 128 + (cp % 64) >>
    ELSE << 240 + (cp \div 262144), 128 + ((cp \div 4096) % 64),
            128 + ((cp \div 64) % 64), 128 + (cp % 64) >>

UTF8Bytes(s) == FlattenSeq([i \in 1..Len(s) |-> UTF8OfCodePoint(Ord(s[i]))])

\* Index of the first surrogate of s, or 0.
FirstSurrogate(s) ==
    IF \E i \in 1..Len(s) : IsSurrogate(Ord(s[i]))
    THEN CHOOSE i \in 1..Len(s) :
            /\ IsSurrogate(Ord(s[i]))
            /\ \A j \in 1..(i - 1) : ~IsSurrogate(Ord(s[j]))
    ELSE 0

\* Index of the last character of the run of surrogates that starts at i.
SurrogateRunEnd(s, i) ==
    CHOOSE e \in i..Len(s) :
        /\ \A j \in i..e : IsSurrogate(Ord(s[j]))
        /\ (e = Len(s) \/ ~IsSurrogate(Ord(s[e + 1])))

\* str(UnicodeEncodeError('utf-8', s, start, end, 'surrogates not allowed'))
\* for the run of surrogates at 1-based indexes first..last.
UnicodeEncodeErrorText(s, first, last) ==
    IF first = last
    THEN << "'", "u", "t", "f", "-", "8", "'", " ", "c", "o", "d", "e",
            "c", " ", "c", "a", "n", "'", "t", " ", "e", "n", "c", "o",
            "d", "e", " ", "c", "h", "a", "r", "a", "c", "t", "e", "r",
            " ", "'" >>
         \o << "\\", "u" >> \o Hex4(Ord(s[first]))
         \o << "'", " ", "i", "n", " ", "p", "o", "s", "i", "t", "i", "o",
               "n", " " >> \o IntToText(first - 1)
         \o << ":", " ", "s", "u", "r", "r", "o", "g", "a", "t", "e", "s",
               " ", "n", "o", "t", " ", "a", "l", "l", "o", "w", "e", "d" >>
    ELSE << "'", "u", "t", "f", "-", "8", "'", " ", "c", "o", "d", "e",
            "c", " ", "c", "a", "n", "'", "t", " ", "e", "n", "c", "o",
            "d", "e", " ", "c", "h", "a", "r", "a", "c", "t", "e", "r",
            "s", " ", "i", "n", " ", "p", "o", "s", "i", "t", "i", "o",
            "n", " " >>
         \o IntToText(first - 1) \o << "-" >> \o IntToText(last - 1)
         \o << ":", " ", "s", "u", "r", "r", "o", "g", "a", "t", "e", "s",
               " ", "n", "o", "t", " ", "a", "l", "l", "o", "w", "e", "d" >>

\* s.encode('utf-8'): the bytes, or the UnicodeEncodeError it raises.
EncodeUTF8(s) ==
    LET i == FirstSurrogate(s)
    IN  IF i = 0
        THEN [ok |-> TRUE, bytes |-> UTF8Bytes(s), error |-> << >>]
        ELSE [ok |-> FALSE, bytes |-> << >>,
              error |-> UnicodeEncodeErrorText(s, i, SurrogateRunEnd(s, i))]

\* repr(s) of a str of plain ASCII letters and digits.
StrRepr(s) == << "'" >> \o s \o << "'" >>

\* repr(l) of a list of str: the reprs of its items, separated by a comma
\* and a space, in square brackets.
RECURSIVE JoinRepr(_)
JoinRepr(l) ==
    IF l = << >> THEN << >>
    ELSE IF Len(l) = 1 THEN StrRepr(l[1])
    ELSE StrRepr(l[1]) \o << ",", " " >> \o JoinRepr(Tail(l))

ListRepr(l) == << "[" >> \o JoinRepr(l) \o << "]" >>

\* json.dumps of a str (ensure_ascii): in double quotes, with the double
\* quote and the backslash escaped, a line feed as \n and a character
\* outside ASCII as \uXXXX.
JsonEscapeChar(c) ==
    IF c = "\"" THEN << "\\", "\"" >>
    ELSE IF c = "\\" THEN << "\\", "\\" >>
    ELSE IF c = LineFeed THEN << "\\", "n" >>
    ELSE IF c \in DOMAIN NonAscii THEN << "\\", "u" >> \o Hex4(Ord(c))
    ELSE << c >>

JsonEscape(s) == FlattenSeq([i \in 1..Len(s) |-> JsonEscapeChar(s[i])])

JsonString(s) == << "\"" >> \o JsonEscape(s) \o << "\"" >>

\* Variant: the first key spelled algorithm.
JsonDumpsResult_OtherKey(a, h) ==
    << "{" >> \o JsonString(<< "a", "l", "g", "o", "r", "i", "t", "h", "m" >>) \o << ":", " " >> \o JsonString(a)
    \o << ",", " " >> \o JsonString(<< "h", "a", "s", "h" >>) \o << ":", " " >> \o JsonString(h)
    \o << "}" >>

\* json.dumps({'algo': a, 'hash': h}): keys in insertion order, a comma and
\* a space between items, a colon and a space between a key and its value.
JsonDumpsResult(a, h) ==
    << "{" >> \o JsonString(<< "a", "l", "g", "o" >>) \o << ":", " " >> \o JsonString(a)
    \o << ",", " " >> \o JsonString(<< "h", "a", "s", "h" >>) \o << ":", " " >> \o JsonString(h)
    \o << "}" >>

\* print(s): the text followed by a line feed.
PrintText(s) == s \o << LineFeed >>

(***************************************************************************)
(* hashlib: a hash object accumulates the bytes fed to it; hexdigest is    *)
(* the digest of their concatenation in lowercase hexadecimal.             *)
(***************************************************************************)
SHA256Name == << "s", "h", "a", "2", "5", "6" >>

MD5Name == << "m", "d", "5" >>

\* The algorithm names for which the model carries a digest function.
HashlibAlgorithms == { SHA256Name, MD5Name }

NoHash == [name |-> << >>, buf |-> << >>, updates |-> 0]

\* Variant: a hash object seeded per process, here with one zero byte for
\* each run that ended before.
HashlibNew_Seeded(name) ==
    [name |-> name, buf |-> [i \in 1..Len(history) |-> 0], updates |-> 0]

\* hashlib.new(name): a fresh hash object with nothing fed to it.
HashlibNew(name) == [name |-> name, buf |-> << >>, updates |-> 0]

\* hash_obj.update(bytes)
HashUpdateBytes(h, bytes) == [h EXCEPT !.buf = @ \o bytes, !.updates = @ + 1]

\* hash_obj.hexdigest()
HexDigest(h) ==
    HexOf(IF h.name = SHA256Name THEN SHA256Digest(h.buf) ELSE MD5Digest(h.buf))

(***************************************************************************)
(* Python values and exceptions.                                           *)
(***************************************************************************)
\* os.getenv gives None or a str.
None == [isNone |-> TRUE, s |-> << >>]

Str(s) == [isNone |-> FALSE, s |-> s]

\* Variant: only None is false, as the test `data is None` would have it.
Truthy_NoneOnly(v) == ~v.isNone

\* bool(v) for v None or a str: None and '' are false.
Truthy(v) == ~v.isNone /\ v.s # << >>

\* Variant: an empty value counts as unset, as `os.getenv(name) or default`
\* would have it.
Getenv_EmptyIsUnset(e, name, default) ==
    IF e[name].isNone \/ e[name].s = << >> THEN default ELSE e[name]

\* os.getenv(name, default) on the environment e
Getenv(e, name, default) == IF e[name].isNone THEN default ELSE e[name]

NoError == [type |-> "", msg |-> << >>]

\* Each exception class the program can raise, with its base class.
BaseClass ==
    [c \in {"UnicodeEncodeError", "UnicodeError", "ValueError", "Exception"} |->
        CASE c = "UnicodeEncodeError" -> "UnicodeError"
          [] c = "UnicodeError" -> "ValueError"
          [] c = "ValueError" -> "Exception"
          [] c = "Exception" -> "BaseException"]

RECURSIVE IsSubclass(_, _)
IsSubclass(c, of) ==
    \/ c = of
    \/ c \in DOMAIN BaseClass /\ IsSubclass(BaseClass[c], of)

(***************************************************************************)
(* The program.                                                            *)
(***************************************************************************)
SUPPORTED_HASH_ALGORITHMS == << SHA256Name, MD5Name >>

\* x in l, for a list l
InList(x, l) == \E i \in 1..Len(l) : l[i] = x

\* Variant: md5 as the default.
DefaultAlgo_Md5 == Str(<< "m", "d", "5" >>)

\* The default of os.getenv('ALGO', 'sha256').
DefaultAlgo == Str(<< "s", "h", "a", "2", "5", "6" >>)

NoDataMessage == << "A", " ", "d", "a", "t", "a", " ", "a", "r", "g", "u", "m",
                    "e", "n", "t", " ", "m", "u", "s", "t", " ", "b", "e", " ",
                    "p", "r", "o", "v", "i", "d", "e", "d" >>

\* Variant: the message without the supported set.
UnsupportedMessage_NoList(a) == << "U", "n", "s", "u", "p", "p", "o", "r", "t", "e", "d", " ",
                                   "h", "a", "s", "h", " ", "a", "l", "g", "o", "r", "i", "t",
                                   "h", "m", ":", " " >> \o a

\* f'Unsupported hash algorithm: {algo} not in {SUPPORTED_HASH_ALGORITHMS}'
UnsupportedMessage(a) ==
    << "U", "n", "s", "u", "p", "p", "o", "r", "t", "e", "d", " ",
       "h", "a", "s", "h", " ", "a", "l", "g", "o", "r", "i", "t",
       "h", "m", ":", " " >> \o a \o << " ", "n", "o", "t", " ", "i", "n", " " >>
    \o ListRepr(SUPPORTED_HASH_ALGORITHMS)

\* f'Error: {err}'
ErrorText(msg) == << "E", "r", "r", "o", "r", ":", " " >> \o msg

\* Variant: a handler for encoding errors only.
CaughtClass_UnicodeOnly == "UnicodeError"

\* The class named by the except clause.
CaughtClass == "Exception"

\* The argument of sys.exit in the handler.
ErrorExitStatus == 1

ClassText ==
    ("ValueError" :> << "V", "a", "l", "u", "e", "E", "r", "r", "o", "r" >>) @@ ("UnicodeEncodeError" :> << "U", "n", "i", "c", "o", "d", "e", "E", "n", "c", "o", "d",
                                                                     "e", "E", "r", "r", "o", "r" >>)

\* What the interpreter writes to standard error for an exception that
\* nothing catches: the traceback header and the exception.
TracebackText(e) ==
    PrintText(<< "T", "r", "a", "c", "e", "b", "a", "c", "k", " ", "(", "m",
                 "o", "s", "t", " ", "r", "e", "c", "e", "n", "t", " ", "c",
                 "a", "l", "l", " ", "l", "a", "s", "t", ")", ":" >>)
    \o PrintText(ClassText[e.type] \o << ":", " " >> \o e.msg)

(***************************************************************************)
(* Inputs: the values the caller may put in the environment.               *)
(***************************************************************************)
DataAlphabet == { "x", "U+00E9", "U+DCFF" }

TextsUpTo(n) == UNION { [1..k -> DataAlphabet] : k \in 0..n }

Hello == << "h", "e", "l", "l", "o" >>

DataValues == { None } \cup { Str(s) : s \in TextsUpTo(MaxDataLen) \cup { Hello } }

AlgoValues ==
    { None, Str(<< >>), Str(SHA256Name), Str(MD5Name), Str(<< "s", "h", "a", "1" >>),
      Str(MD5Name \o << LineFeed >>) }

Environments == [DATA : DataValues, ALGO : AlgoValues]

\* A process that has just started on the environment e.
Start(e) ==
    /\ env = e
    /\ pc = "read_data"
    /\ data = None
    /\ algo = None
    /\ hash_obj = NoHash
    /\ err = NoError
    /\ stdout = << >>
    /\ stderr = << >>
    /\ exit_status = -1
    /\ reads = << >>

Init ==
    /\ \E e \in Environments : Start(e)
    /\ history = << >>

\* Variant: the check of DATA does not raise.
ReadData_NoRaise ==
    /\ pc = "read_data"
    /\ data' = Getenv(env, "DATA", None)
    /\ pc' = "read_algo"
    /\ reads' = Append(reads, "DATA")
    /\ UNCHANGED << env, algo, hash_obj, err, stdout, stderr, exit_status, history >>

\* data = os.getenv('DATA'); if not data: raise ValueError(...)
ReadData ==
    /\ pc = "read_data"
    /\ LET d == Getenv(env, "DATA", None)
       IN  /\ data' = d
           /\ IF ~Truthy(d)
              THEN /\ err' = [type |-> "ValueError", msg |-> NoDataMessage]
                   /\ pc' = "except"
              ELSE /\ err' = err
                   /\ pc' = "read_algo"
    /\ reads' = Append(reads, "DATA")
    /\ UNCHANGED << env, algo, hash_obj, stdout, stderr, exit_status, history >>

\* algo = os.getenv('ALGO', 'sha256'); if algo not in SUPPORTED_HASH_ALGORITHMS: raise ValueError(...)
ReadAlgo ==
    /\ pc = "read_algo"
    /\ LET a == Getenv(env, "ALGO", DefaultAlgo)
       IN  /\ algo' = a
           /\ IF ~InList(a.s, SUPPORTED_HASH_ALGORITHMS)
              THEN /\ err' = [type |-> "ValueError", msg |-> UnsupportedMessage(a.s)]
                   /\ pc' = "except"
              ELSE /\ err' = err
                   /\ pc' = "hash_new"
    /\ reads' = Append(reads, "ALGO")
    /\ UNCHANGED << env, data, hash_obj, stdout, stderr, exit_status, history >>

\* hash_obj = hashlib.new(algo)
HashNew ==
    /\ pc = "hash_new"
    /\ IF algo.s \in HashlibAlgorithms
       THEN /\ hash_obj' = HashlibNew(algo.s)
            /\ err' = err
            /\ pc' = "hash_update"
       ELSE /\ hash_obj' = hash_obj
            /\ err' = [type |-> "ValueError",
                       msg |-> << "u", "n", "s", "u", "p", "p", "o", "r", "t", "e", "d", " ",
                                  "h", "a", "s", "h", " ", "t", "y", "p", "e", " " >> \o algo.s]
            /\ pc' = "except"
    /\ UNCHANGED << env, data, algo, stdout, stderr, exit_status, reads, history >>

\* hash_obj.update(data.encode('utf-8'))
HashUpdate ==
    /\ pc = "hash_update"
    /\ LET enc == EncodeUTF8(data.s)
       IN  IF enc.ok
           THEN /\ hash_obj' = HashUpdateBytes(hash_obj, enc.bytes)
                /\ err' = err
                /\ pc' = "print_result"
           ELSE /\ hash_obj' = hash_obj
                /\ err' = [type |-> "UnicodeEncodeError", msg |-> enc.error]
                /\ pc' = "except"
    /\ UNCHANGED << env, data, algo, stdout, stderr, exit_status, reads, history >>

\* print(json.dumps({'algo': algo, 'hash': hash_obj.hexdigest()})); main
\* returns and the interpreter exits with status 0.
PrintResult ==
    /\ pc = "print_result"
    /\ \E hex \in { HexDigest(hash_obj) } :
          stdout' = stdout \o PrintText(JsonDumpsResult(algo.s, hex))
    /\ exit_status' = 0
    /\ pc' = "exited"
    /\ UNCHANGED << env, data, algo, hash_obj, err, stderr, reads, history >>

\* except Exception as err: print(f'Error: {err}'); sys.exit(1).  An
\* exception the clause does not name ends the process with a traceback on
\* standard error and status 1.
HandleError ==
    /\ pc = "except"
    /\ IF IsSubclass(err.type, CaughtClass)
       THEN /\ stdout' = stdout \o PrintText(ErrorText(err.msg))
            /\ stderr' = stderr
            /\ exit_status' = ErrorExitStatus
       ELSE /\ stdout' = stdout
            /\ stderr' = stderr \o TracebackText(err)
            /\ exit_status' = 1
    /\ pc' = "exited"
    /\ UNCHANGED << env, data, algo, hash_obj, err, reads, history >>

\* The caller invokes the tool again on the same DATA, with any ALGO: a new
\* process, which shares nothing with the one that ended.
Rerun ==
    /\ pc = "exited"
    /\ Len(history) + 1 < MaxRuns
    /\ history' = Append(history, [env |-> env, stdout |-> stdout,
                                   stderr |-> stderr, exit_status |-> exit_status,
                                   error |-> err])
    /\ \E a \in AlgoValues : env' = [DATA |-> env.DATA, ALGO |-> a]
    /\ pc' = "read_data"
    /\ data' = None
    /\ algo' = None
    /\ hash_obj' = NoHash
    /\ err' = NoError
    /\ stdout' = << >>
    /\ stderr' = << >>
    /\ exit_status' = -1
    /\ reads' = << >>

Next ==
    \/ ReadData
    \/ ReadAlgo
    \/ HashNew
    \/ HashUpdate
    \/ PrintResult
    \/ HandleError
    \/ Rerun

Spec == Init /\ [][Next]_vars

(***************************************************************************)
(* Reading the output back: the vocabulary of the properties, written      *)
(* from the documented output format and independent of the operators the  *)
(* program model prints with.                                              *)
(***************************************************************************)
RefSha256 == << "s", "h", "a", "2", "5", "6" >>

RefMd5 == << "m", "d", "5" >>

Supported == { RefSha256, RefMd5 }

ErrorPrefix == << "E", "r", "r", "o", "r", ":", " " >>

UnsupportedPrefix == << "E", "r", "r", "o", "r", ":", " ", "U", "n", "s", "u", "p",
                        "p", "o", "r", "t", "e", "d", " ", "h", "a", "s", "h", " ",
                        "a", "l", "g", "o", "r", "i", "t", "h", "m", ":", " " >>

NoDataLine == << "E", "r", "r", "o", "r", ":", " ", "A", " ", "d", "a", "t",
                 "a", " ", "a", "r", "g", "u", "m", "e", "n", "t", " ", "m",
                 "u", "s", "t", " ", "b", "e", " ", "p", "r", "o", "v", "i",
                 "d", "e", "d" >> \o << LineFeed >>

ResultOpen == << "{", "\"", "a", "l", "g", "o", "\"", ":", " ", "\"" >>

ResultMiddle == << "\"", ",", " ", "\"", "h", "a", "s", "h", "\"", ":", " ", "\"" >>

ResultClose == << "\"", "}" >> \o << LineFeed >>

Done == pc = "exited"

\* s starts with p.
StartsWith(s, p) == Len(s) >= Len(p) /\ SubSeq(s, 1, Len(p)) = p

\* sub occurs in s.
Contains(s, sub) ==
    \E i \in 1..(Len(s) - Len(sub) + 1) : SubSeq(s, i, i + Len(sub) - 1) = sub

\* The number of line feeds in s.
CountLineFeeds(s) == Cardinality({ i \in 1..Len(s) : s[i] = LineFeed })

\* out is one line, ended by its line feed.
IsOneLine(out) ==
    /\ out # << >>
    /\ out[Len(out)] = LineFeed
    /\ CountLineFeeds(out) = 1

\* out is a report of an error: Error: <message> and the line feed print adds.
IsErrorReport(out) ==
    /\ StartsWith(out, ErrorPrefix)
    /\ Len(out) > Len(ErrorPrefix) + 1
    /\ out[Len(out)] = LineFeed

\* The message of an error report.
MessageOf(out) == SubSeq(out, Len(ErrorPrefix) + 1, Len(out) - 1)

\* The places of out where ResultMiddle starts.
MiddlePlaces(out) ==
    { i \in 1..(Len(out) - Len(ResultMiddle) + 1) :
        SubSeq(out, i, i + Len(ResultMiddle) - 1) = ResultMiddle }

PlainText(s) == \A i \in 1..Len(s) : s[i] \notin { "\"", "\\", LineFeed }

\* out is one line holding a JSON object with exactly the keys algo and
\* hash, in the layout json.dumps gives.
IsResultRecord(out) ==
    /\ IsOneLine(out)
    /\ StartsWith(out, ResultOpen)
    /\ Len(out) >= Len(ResultOpen) + Len(ResultMiddle) + Len(ResultClose)
    /\ SubSeq(out, Len(out) - Len(ResultClose) + 1, Len(out)) = ResultClose
    /\ Cardinality(MiddlePlaces(out)) = 1
    /\ LET m == CHOOSE i \in MiddlePlaces(out) : TRUE
       IN  /\ m > Len(ResultOpen)
           /\ m + Len(ResultMiddle) <= Len(out) - Len(ResultClose) + 1
           /\ PlainText(SubSeq(out, Len(ResultOpen) + 1, m - 1))
           /\ PlainText(SubSeq(out, m + Len(ResultMiddle), Len(out) - Len(ResultClose)))

\* The algo field of a result record.
AlgoField(out) ==
    SubSeq(out, Len(ResultOpen) + 1, (CHOOSE i \in MiddlePlaces(out) : TRUE) - 1)

\* The hash field of a result record.
HashField(out) ==
    SubSeq(out, (CHOOSE i \in MiddlePlaces(out) : TRUE) + Len(ResultMiddle),
           Len(out) - Len(ResultClose))

IsLowerHex(s) ==
    \A i \in 1..Len(s) :
        s[i] \in { "0", "1", "2", "3", "4", "5", "6", "7", "8", "9",
                   "a", "b", "c", "d", "e", "f" }

\* DATA is set and not empty.
DataGiven(e) == ~e.DATA.isNone /\ e.DATA.s # << >>

\* No character of DATA is a lone surrogate: DATA is text UTF-8 can encode.
DataEncodable(e) == \A i \in 1..Len(e.DATA.s) : e.DATA.s[i] # "U+DCFF"

AlgoUnset(e) == e.ALGO.isNone

AlgoSupported(e) == ~e.ALGO.isNone /\ e.ALGO.s \in Supported

\* The UTF-8 bytes of the characters of the inputs, from the UTF-8 tables.
RefCharBytes ==
    ("x" :> << 120 >>) @@ ("h" :> << 104 >>) @@ ("e" :> << 101 >>)
    @@ ("l" :> << 108 >>) @@ ("o" :> << 111 >>) @@ ("U+00E9" :> << 195, 169 >>)

RECURSIVE RefBytes(_)
RefBytes(s) ==
    IF s = << >> THEN << >> ELSE RefCharBytes[s[1]] \o RefBytes(SubSeq(s, 2, Len(s)))

\* Digests computed by the reference implementations of SHA-256 and MD5
\* over the UTF-8 bytes of data.
KnownDigests ==
    {
    [data |-> << "h", "e", "l", "l", "o" >>, algo |-> RefSha256,
     hash |-> << "2", "c", "f", "2", "4", "d", "b", "a", "5", "f", "b", "0",
                 "a", "3", "0", "e", "2", "6", "e", "8", "3", "b", "2", "a",
                 "c", "5", "b", "9", "e", "2", "9", "e", "1", "b", "1", "6",
                 "1", "e", "5", "c", "1", "f", "a", "7", "4", "2", "5", "e",
                 "7", "3", "0", "4", "3", "3", "6", "2", "9", "3", "8", "b",
                 "9", "8", "2", "4" >>],
    [data |-> << "h", "e", "l", "l", "o" >>, algo |-> RefMd5,
     hash |-> << "5", "d", "4", "1", "4", "0", "2", "a", "b", "c", "4", "b",
                 "2", "a", "7", "6", "b", "9", "7", "1", "9", "d", "9", "1",
                 "1", "0", "1", "7", "c", "5", "9", "2" >>],
    [data |-> << "x" >>, algo |-> RefSha256,
     hash |-> << "2", "d", "7", "1", "1", "6", "4", "2", "b", "7", "2", "6",
                 "b", "0", "4", "4", "0", "1", "6", "2", "7", "c", "a", "9",
                 "f", "b", "a", "c", "3", "2", "f", "5", "c", "8", "5", "3",
                 "0", "f", "b", "1", "9", "0", "3", "c", "c", "4", "d", "b",
                 "0", "2", "2", "5", "8", "7", "1", "7", "9", "2", "1", "a",
                 "4", "8", "8", "1" >>],
    [data |-> << "x" >>, algo |-> RefMd5,
     hash |-> << "9", "d", "d", "4", "e", "4", "6", "1", "2", "6", "8", "c",
                 "8", "0", "3", "4", "f", "5", "c", "8", "5", "6", "4", "e",
                 "1", "5", "5", "c", "6", "7", "a", "6" >>],
    [data |-> << "U+00E9" >>, algo |-> RefSha256,
     hash |-> << "4", "a", "9", "9", "5", "5", "7", "e", "4", "0", "3", "3",
                 "c", "3", "5", "3", "9", "d", "e", "2", "e", "b", "6", "5",
                 "4", "7", "2", "0", "1", "7", "c", "a", "d", "5", "f", "9",
                 "5", "5", "7", "f", "7", "a", "0", "6", "2", "5", "a", "0",
                 "9", "f", "1", "c", "3", "f", "6", "e", "2", "b", "a", "6",
                 "9", "c", "4", "c" >>],
    [data |-> << "U+00E9" >>, algo |-> RefMd5,
     hash |-> << "6", "6", "d", "d", "c", "d", "9", "7", "c", "f", "d", "e",
                 "a", "b", "b", "2", "f", "6", "f", "b", "8", "a", "9", "9",
                 "9", "b", "4", "b", "c", "7", "6", "f" >>],
    [data |-> << "x", "U+00E9" >>, algo |-> RefSha256,
     hash |-> << "3", "c", "8", "6", "2", "e", "c", "a", "7", "8", "c", "0",
                 "3", "d", "6", "1", "d", "c", "b", "7", "f", "2", "b", "6",
                 "c", "4", "0", "6", "4", "d", "1", "f", "f", "c", "4", "d",
                 "4", "c", "a", "5", "1", "a", "6", "f", "0", "7", "6", "b",
                 "a", "0", "a", "1", "9", "8", "3", "9", "b", "5", "1", "5",
                 "9", "2", "b", "a" >>],
    [data |-> << "x", "U+00E9" >>, algo |-> RefMd5,
     hash |-> << "9", "3", "b", "a", "a", "6", "f", "8", "b", "4", "7", "5",
                 "7", "3", "6", "9", "0", "5", "7", "7", "f", "5", "6", "9",
                 "c", "2", "5", "9", "c", "6", "9", "f" >>]
    }

KnownFor(d, a) == { k \in KnownDigests : k.data = d /\ k.algo = a }

\* The algorithm a run on environment e resolves to, as documented.
Resolved(e) == IF e.ALGO.isNone THEN RefSha256 ELSE e.ALGO.s

(***************************************************************************)
(* C1.  As stated: every run with DATA non-empty and ALGO unset or          *)
(* supported writes exactly one line to standard output, a JSON object     *)
(* with exactly the keys algo and hash, writes no Error: line, and exits   *)
(* with status 0.                                                           *)
(***************************************************************************)
C1_AsStated ==
    (Done /\ DataGiven(env) /\ (AlgoUnset(env) \/ AlgoSupported(env)))
        => /\ IsResultRecord(stdout)
           /\ ~StartsWith(stdout, ErrorPrefix)
           /\ exit_status = 0

(***************************************************************************)
(* C1, amended.  Every run with DATA non-empty and encodable as UTF-8 (no  *)
(* lone surrogate from an undecodable byte) and ALGO unset or supported    *)
(* writes exactly one line to standard output, a JSON object with exactly  *)
(* the keys algo and hash, writes no Error: line and nothing to standard   *)
(* error, and exits with status 0.                                         *)
(***************************************************************************)
C1_SuccessOutput ==
    (Done /\ DataGiven(env) /\ DataEncodable(env)
          /\ (AlgoUnset(env) \/ AlgoSupported(env)))
        => /\ IsResultRecord(stdout)
           /\ ~StartsWith(stdout, ErrorPrefix)
           /\ stderr = << >>
           /\ exit_status = 0

C1_Witness ==
    /\ Done
    /\ DataGiven(env) /\ DataEncodable(env) /\ AlgoUnset(env)
    /\ env.DATA.s = << "x", "U+00E9" >>
    /\ IsResultRecord(stdout)
    /\ exit_status = 0

(***************************************************************************)
(* C2.  Every run with DATA unset or empty, whatever ALGO is, writes       *)
(* exactly one line of the form Error: <message> to standard output,       *)
(* nothing to standard error and no JSON result, and exits with status 1.  *)
(***************************************************************************)
C2_MissingData ==
    (Done /\ ~DataGiven(env))
        => /\ IsOneLine(stdout)
           /\ IsErrorReport(stdout)
           /\ ~IsResultRecord(stdout)
           /\ stderr = << >>
           /\ exit_status = 1

C2_Witness ==
    /\ Done
    /\ ~env.DATA.isNone /\ env.DATA.s = << >>
    /\ AlgoSupported(env)
    /\ IsErrorReport(stdout)
    /\ exit_status = 1

C4_ResultRecordShape ==
    (stdout # << >> /\ stdout[1] = "{")
        => /\ IsResultRecord(stdout)
           /\ AlgoField(stdout) \in Supported
           /\ IsLowerHex(HashField(stdout))
           /\ Len(HashField(stdout)) = (IF AlgoField(stdout) = RefSha256 THEN 64 ELSE 32)

C4_Witness ==
    /\ Done
    /\ IsResultRecord(stdout)
    /\ AlgoField(stdout) = RefMd5
    /\ Len(HashField(stdout)) = 32
    /\ Len(history) = 1
    /\ IsResultRecord(history[1].stdout)
    /\ AlgoField(history[1].stdout) = RefSha256
    /\ Len(HashField(history[1].stdout)) = 64

(***************************************************************************)
(* C5.  For every non-empty DATA value, a run with ALGO unset and a run    *)
(* with ALGO set to sha256 on the same DATA give the same standard output  *)
(* and the same exit status, and a result record of either names sha256.   *)
(***************************************************************************)
C5_DefaultIsSha256 ==
    \A i \in 1..Len(history) :
        (/\ Done
         /\ DataGiven(env)
         /\ history[i].env.DATA = env.DATA
         /\ \/ AlgoUnset(history[i].env) /\ env.ALGO = Str(RefSha256)
            \/ history[i].env.ALGO = Str(RefSha256) /\ AlgoUnset(env))
        => /\ history[i].stdout = stdout
           /\ history[i].exit_status = exit_status
           /\ IsResultRecord(stdout) => AlgoField(stdout) = RefSha256

C5_Witness ==
    /\ Done
    /\ Len(history) = 1
    /\ env.DATA = Str(Hello)
    /\ AlgoUnset(history[1].env)
    /\ env.ALGO = Str(RefSha256)
    /\ IsResultRecord(stdout)
    /\ history[1].stdout = stdout

(***************************************************************************)
(* C6.  On success the hash field is the lowercase hex digest, under the   *)
(* resolved algorithm, of the UTF-8 bytes of the whole DATA value fed in a *)
(* single update, also for DATA with characters outside ASCII; DATA=hello  *)
(* gives 2cf24dba...9824 with ALGO unset and 5d41402a...c592 with md5.     *)
(***************************************************************************)
C6_DigestOfUTF8 ==
    (Done /\ exit_status = 0)
        => /\ IsResultRecord(stdout)
           /\ AlgoField(stdout) = Resolved(env)
           /\ hash_obj.name = Resolved(env)
           /\ hash_obj.updates = 1
           /\ hash_obj.buf = RefBytes(env.DATA.s)
           /\ \A k \in KnownFor(env.DATA.s, Resolved(env)) : HashField(stdout) = k.hash

C6_Witness ==
    /\ Done
    /\ exit_status = 0
    /\ env.DATA = Str(<< "U+00E9" >>)
    /\ env.ALGO = Str(RefMd5)
    /\ KnownFor(env.DATA.s, Resolved(env)) # { }
    /\ hash_obj.buf = << 195, 169 >>

C8_AsStated ==
    (Done /\ DataGiven(env))
        => (StartsWith(stdout, UnsupportedPrefix)
              <=> (~AlgoUnset(env) /\ env.ALGO.s # << >> /\ ~AlgoSupported(env)))

(***************************************************************************)
(* C8, amended.  With DATA non-empty, the run reports the unsupported      *)
(* algorithm error exactly when ALGO is set and its value is not in        *)
(* {sha256, md5}, the empty string included; with ALGO unset or supported  *)
(* it does not.                                                            *)
(***************************************************************************)
C8_UnsupportedExactly ==
    (Done /\ DataGiven(env))
        => (StartsWith(stdout, UnsupportedPrefix)
              <=> (~AlgoUnset(env) /\ ~AlgoSupported(env)))

C8_Witness ==
    /\ Done
    /\ DataGiven(env)
    /\ env.ALGO = Str(<< >>)
    /\ StartsWith(stdout, UnsupportedPrefix)
    /\ exit_status = 1

=============================================================================
